---- MODULE Spec2Model ----
(***************************************************************************)
(* A model of the general utilities of devtools-core (DevToolsUtils):      *)
(* settleAll, yieldingEach, defineLazyGetter, assert and safeErrorString,  *)
(* of the GripMap rep's entry selection, and of the property-tree builder  *)
(* makeNodesForProperties.  Each has a specification of its own            *)
(* (SpecSettle, SpecYield, SpecLazy, SpecAssert, SpecErr, SpecGrip,        *)
(* SpecTree); the variables of the others stay at their initial values.    *)
(* Array indexes are 1-based here and 0-based in the source.               *)
(***************************************************************************)
EXTENDS Integers, Sequences, FiniteSets, TLC

VARIABLES
    sa,     \* settleAll: the closure of one call and the promises given to it
    ye,     \* yieldingEach: the closure of one call and the promises aFn returned
    lz,     \* defineLazyGetter: the object's properties and the reads made
    da,     \* assert: the flags, the function last read, the console
    es,     \* safeErrorString: the last input and its outcome
    gm,     \* GripMap: the last call of safeEntriesIterator and its outcome
    pt      \* makeNodesForProperties: the last call and the nodes it made

vars == <<sa, ye, lz, da, es, gm, pt>>

(***************************************************************************)
(* Bounds of the model.                                                    *)
(***************************************************************************)
MaxInputs == 3      \* longest `values` given to settleAll
MaxLen == 3         \* longest aArray given to yieldingEach
MaxReads == 4       \* reads of lazy properties, begun or completed
MaxCalls == 3       \* calls of the assert function
MaxEntries == 4     \* longest preview.entries of a map grip
MaxMax == 5         \* largest max given to safeEntriesIterator
MaxProps == 5       \* most own properties given to makeNodesForProperties

(***************************************************************************)
(* JavaScript values: undefined, a primitive, an array.                    *)
(***************************************************************************)
Undefined == [t |-> "undefined"]
Prim(x) == [t |-> "prim", v |-> x]
Arr(s) == [t |-> "array", elems |-> s]

\* new Array(n): n holes, each read as undefined.
NewArray(n) == Arr([k \in 1..n |-> Undefined])

(***************************************************************************)
(* A deferred (promise.defer()): settles once, later calls are ignored.    *)
(***************************************************************************)
PendingDeferred == [state |-> "pending", value |-> Undefined]

DeferredResolve(d, v) ==
    IF d.state = "pending" THEN [state |-> "resolved", value |-> v] ELSE d

DeferredReject(d, e) ==
    IF d.state = "pending" THEN [state |-> "rejected", value |-> e] ELSE d

(***************************************************************************)
(* settleAll(values).                                                      *)
(*                                                                         *)
(* An input is a plain value or a promise that is pending, resolved or     *)
(* rejected when settleAll is called.  Input i carries the value i: it is  *)
(* the plain value, the resolution value or the rejection reason, so that  *)
(* the outcomes of different inputs can be told apart.                     *)
(***************************************************************************)
InputKinds == {"plain", "pending", "resolved", "rejected"}

ValueOf(i) == Prim(i)

IsThenable(kind) == kind # "plain"

\* if (--countdown > 0) return; resolve or reject the deferred.
checkForCompletion(c) ==
    LET d == [c EXCEPT !.countdown = c.countdown - 1] IN
    IF d.countdown > 0 THEN d
    ELSE IF ~d.rejectionOccurred
         THEN [d EXCEPT !.deferred = DeferredResolve(d.deferred, d.resolutionValues)]
         ELSE [d EXCEPT !.deferred = DeferredReject(d.deferred, d.rejectionValue)]

\* A resolver that stores results in the order they arrive.
resolverInArrivalOrder(c, index, result) ==
    checkForCompletion(
        [c EXCEPT !.resolutionValues =
            Arr([c.resolutionValues.elems EXCEPT
                    ![Len(c.resolutionValues.elems) - c.countdown + 1] = result])])

\* resolutionValues[index] = result; checkForCompletion().
resolver(c, index, result) ==
    checkForCompletion(
        [c EXCEPT !.resolutionValues =
            Arr([c.resolutionValues.elems EXCEPT ![index] = result])])

\* A rejecter that rejects the deferred at once, as Promise.all does.
rejecterFailFast(c, error) ==
    checkForCompletion(
        [c EXCEPT !.rejectionValue = error, !.rejectionOccurred = TRUE,
                  !.deferred = DeferredReject(c.deferred, error)])

\* A rejecter that keeps the last rejection.
rejecterKeepsLast(c, error) ==
    checkForCompletion(
        [c EXCEPT !.rejectionValue = error, !.rejectionOccurred = TRUE])

\* The first rejection is kept; checkForCompletion().
rejecter(c, error) ==
    checkForCompletion(
        IF ~c.rejectionOccurred
        THEN [c EXCEPT !.rejectionValue = error, !.rejectionOccurred = TRUE]
        ELSE c)

\* The state of the closure before the loop over the values.
settleAllStart(n) ==
    [countdown |-> n,
     resolutionValues |-> NewArray(n),
     rejectionValue |-> Undefined,
     rejectionOccurred |-> FALSE,
     deferred |-> PendingDeferred]

\* settleAll without the early return for an empty input.
settleAllEmptyMissing(c) == c

\* if (!countdown) { deferred.resolve(resolutionValues); return ... }
settleAllEmpty(c) ==
    IF c.countdown = 0
    THEN [c EXCEPT !.deferred = DeferredResolve(c.deferred, c.resolutionValues)]
    ELSE c

\* The loop over the values: a thenable gets resolver and rejecter attached,
\* any other value is forwarded to resolver at once.
RECURSIVE settleAllLoop(_, _, _)
settleAllLoop(c, kinds, i) ==
    IF i > Len(kinds) THEN c
    ELSE IF IsThenable(kinds[i])
         THEN settleAllLoop(c, kinds, i + 1)
         ELSE settleAllLoop(resolver(c, i, ValueOf(i)), kinds, i + 1)

\* The whole synchronous body of settleAll.
settleAllBody(kinds) ==
    LET c == settleAllEmpty(settleAllStart(Len(kinds))) IN
    IF Len(kinds) = 0 THEN c ELSE settleAllLoop(c, kinds, 1)

\* The indexes of seq s, in order, that hold `kind`.
RECURSIVE IndexesWhere(_, _, _)
IndexesWhere(s, i, kind) ==
    IF i > Len(s) THEN <<>>
    ELSE (IF s[i] = kind THEN <<i>> ELSE <<>>) \o IndexesWhere(s, i + 1, kind)

RECURSIVE IndexesSettled(_, _)
IndexesSettled(s, i) ==
    IF i > Len(s) THEN <<>>
    ELSE (IF s[i] \in {"resolved", "rejected"} THEN <<i>> ELSE <<>>)
         \o IndexesSettled(s, i + 1)

SettleIdle ==
    [phase |-> "idle",
     kinds |-> <<>>,          \* what each input was when settleAll was called
     inState |-> <<>>,        \* what each input is now
     jobs |-> <<>>,           \* reactions queued by settled promises, in order
     ran |-> <<>>,            \* inputs whose resolver or rejecter has run, in order
     firstRejected |-> 0,     \* the first input seen to reject (0: none)
     c |-> settleAllStart(0)]

\* settleAll(values) is called and returns.  value.then on a promise that is
\* already settled queues its reaction at once, in the order of the loop.
SettleAllCall(kinds) ==
    /\ sa.phase = "idle"
    /\ LET settled == IndexesSettled(kinds, 1)
           rej == IndexesWhere(kinds, 1, "rejected") IN
       sa' = [phase |-> "called",
              kinds |-> kinds,
              inState |-> kinds,
              jobs |-> settled,
              ran |-> <<>>,
              firstRejected |-> IF rej = <<>> THEN 0 ELSE rej[1],
              c |-> settleAllBody(kinds)]
    /\ UNCHANGED <<ye, lz, da, es, gm, pt>>

\* A pending input promise is resolved by its owner: its reaction is queued.
InputResolve(i) ==
    /\ sa.phase = "called"
    /\ i \in 1..Len(sa.kinds)
    /\ sa.inState[i] = "pending"
    /\ sa' = [sa EXCEPT !.inState[i] = "resolved", !.jobs = Append(@, i)]
    /\ UNCHANGED <<ye, lz, da, es, gm, pt>>

\* A pending input promise is rejected by its owner: its reaction is queued.
InputReject(i) ==
    /\ sa.phase = "called"
    /\ i \in 1..Len(sa.kinds)
    /\ sa.inState[i] = "pending"
    /\ sa' = [sa EXCEPT !.inState[i] = "rejected", !.jobs = Append(@, i),
                        !.firstRejected = IF @ = 0 THEN i ELSE @]
    /\ UNCHANGED <<ye, lz, da, es, gm, pt>>

\* The host runs the oldest queued reaction: resolver or rejecter of that input.
RunReaction ==
    /\ sa.phase = "called"
    /\ sa.jobs # <<>>
    /\ LET i == Head(sa.jobs) IN
       sa' = [sa EXCEPT !.jobs = Tail(@),
                        !.ran = Append(@, i),
                        !.c = IF sa.inState[i] = "resolved"
                              THEN resolver(@, i, ValueOf(i))
                              ELSE rejecter(@, ValueOf(i))]
    /\ UNCHANGED <<ye, lz, da, es, gm, pt>>

(***************************************************************************)
(* yieldingEach(aArray, aFn).                                              *)
(*                                                                         *)
(* loop() runs in turns of the event loop.  In a turn it calls aFn on the  *)
(* next elements until the array ends (deferred.resolve()), aFn throws     *)
(* (deferred.reject(e)) or more than 16 ms have passed since the turn      *)
(* began (executeSoon(loop)).  The time a turn takes is the time spent in  *)
(* aFn, so a turn yields only after at least one call.  When the first     *)
(* turn ends, yieldingEach returns promise.all(outstanding), which reads   *)
(* the array as it is then.                                                *)
(***************************************************************************)
FnReturns == {"plain", "pending", "resolved", "rejected"}

YieldIdle ==
    [pc |-> "idle",           \* idle, loop (in a turn), scheduled, done
     len |-> 0,               \* aArray.length
     i |-> 0,                 \* the elements consumed so far
     turnStart |-> 0,         \* i when the current turn began
     outstanding |-> <<>>,    \* 0: deferred.promise; k: what aFn returned for k
     deferred |-> "pending",  \* deferred.promise
     awaited |-> <<>>,        \* the promises promise.all took from outstanding
     result |-> "none",       \* the promise yieldingEach returned
     calls |-> <<>>,          \* the indexes aFn was called with, in order
     fn |-> <<>>]             \* per element: none, threw, or what aFn returned

\* promise.all(outstanding), called when the first turn of loop() ends: it
\* iterates the array once, at the time of the call.
promiseAll(y) ==
    IF y.result = "none"
    THEN [y EXCEPT !.awaited = y.outstanding, !.result = "pending"]
    ELSE y

\* The state of an entry of outstanding: a value that is no promise counts
\* as resolved.
EntryState(y, k) ==
    IF k = 0 THEN y.deferred
    ELSE IF y.fn[k] = "plain" THEN "resolved" ELSE y.fn[k]

\* yieldingEach is called: the locals are set up and loop() is entered.
YieldingEachCall(len) ==
    /\ ye.pc = "idle"
    /\ ye' = [ye EXCEPT !.pc = "loop", !.len = len, !.i = 0, !.turnStart = 0,
                        !.outstanding = <<0>>,
                        !.fn = [k \in 1..len |-> "none"]]
    /\ UNCHANGED <<sa, lz, da, es, gm, pt>>

\* outstanding.push(aFn(aArray[i], i++)), aFn returning `ret`.
LoopCall(ret) ==
    /\ ye.pc = "loop"
    /\ ye.i < ye.len
    /\ ye' = [ye EXCEPT !.i = @ + 1,
                        !.calls = Append(@, ye.i + 1),
                        !.fn[ye.i + 1] = ret,
                        !.outstanding = Append(@, ye.i + 1)]
    /\ UNCHANGED <<sa, lz, da, es, gm, pt>>

\* aFn throws: i is already incremented, deferred.reject(e), loop() returns.
LoopThrow ==
    /\ ye.pc = "loop"
    /\ ye.i < ye.len
    /\ ye' = promiseAll([ye EXCEPT !.i = @ + 1,
                                   !.calls = Append(@, ye.i + 1),
                                   !.fn[ye.i + 1] = "threw",
                                   !.deferred = "rejected",
                                   !.pc = "done"])
    /\ UNCHANGED <<sa, lz, da, es, gm, pt>>

\* Date.now() - start > 16: executeSoon(loop) and return.
LoopYield ==
    /\ ye.pc = "loop"
    /\ ye.i < ye.len
    /\ ye.i > ye.turnStart
    /\ ye' = promiseAll([ye EXCEPT !.pc = "scheduled"])
    /\ UNCHANGED <<sa, lz, da, es, gm, pt>>

\* The while loop ends: deferred.resolve().
LoopFinish ==
    /\ ye.pc = "loop"
    /\ ye.i >= ye.len
    /\ ye' = promiseAll([ye EXCEPT !.pc = "done", !.deferred = "resolved"])
    /\ UNCHANGED <<sa, lz, da, es, gm, pt>>

\* The timer of executeSoon fires: loop() is entered again.
LoopResume ==
    /\ ye.pc = "scheduled"
    /\ ye' = [ye EXCEPT !.pc = "loop", !.turnStart = ye.i]
    /\ UNCHANGED <<sa, lz, da, es, gm, pt>>

\* A promise aFn returned is settled by its owner.
FnPromiseSettle(k, how) ==
    /\ ye.pc # "idle"
    /\ k \in 1..ye.len
    /\ ye.fn[k] = "pending"
    /\ ye' = [ye EXCEPT !.fn[k] = how]
    /\ UNCHANGED <<sa, lz, da, es, gm, pt>>

\* The promise of promise.all settles, between turns: rejected when one of the
\* promises it took is rejected, resolved when all of them are resolved.
PromiseAllSettle ==
    /\ ye.pc \in {"scheduled", "done"}
    /\ ye.result = "pending"
    /\ LET states == {EntryState(ye, ye.awaited[j]) : j \in 1..Len(ye.awaited)} IN
       \/ /\ "rejected" \in states
          /\ ye' = [ye EXCEPT !.result = "rejected"]
       \/ /\ states = {"resolved"}
          /\ ye' = [ye EXCEPT !.result = "resolved"]
    /\ UNCHANGED <<sa, lz, da, es, gm, pt>>


(***************************************************************************)
(* defineLazyGetter(aObject, aName, aLambda).                              *)
(*                                                                         *)
(* aObject has the properties Names.  A property is absent, an accessor    *)
(* whose getter is the lazy getter, or a plain value.  aLambda may read    *)
(* aObject itself while it runs (stack), may throw, and returns a new      *)
(* value at every call: the number of the call.                            *)
(***************************************************************************)
Names == {"a", "b"}

Absent == [kind |-> "absent", value |-> Undefined]
LazyGetter == [kind |-> "getter", value |-> Undefined]
PlainValue(v) == [kind |-> "value", value |-> v]

LazyIdle ==
    [props |-> [n \in Names |-> Absent],
     defined |-> {},                      \* names given to defineLazyGetter
     calls |-> [n \in Names |-> 0],       \* calls of aLambda, per name
     stack |-> <<>>,                      \* names whose aLambda is running
     reads |-> <<>>]                      \* completed reads, in order

\* A getter that leaves the accessor in place.
deletePropertyMissing(p) == p

\* delete aObject[aName]: the property is configurable.
deleteProperty(p) == Absent

\* aObject[aName] = v: creates or writes a plain value; an accessor without a
\* setter ignores the assignment.
assignProperty(p, v) == IF p.kind = "getter" THEN p ELSE PlainValue(v)

\* Object.defineProperty(aObject, aName, {get, configurable, enumerable}).
DefineLazyGetter(n) ==
    /\ n \notin lz.defined
    /\ lz.stack = <<>>
    /\ lz' = [lz EXCEPT !.props[n] = LazyGetter, !.defined = @ \cup {n}]
    /\ UNCHANGED <<sa, ye, da, es, gm, pt>>

\* aObject[n] is read, by the program or by an aLambda that is running.  A plain
\* or absent property answers at once; the getter deletes the property and
\* calls aLambda.
ReadProperty(n) ==
    /\ n \in lz.defined
    /\ Len(lz.reads) + Len(lz.stack) < MaxReads
    /\ IF lz.props[n].kind = "getter"
       THEN lz' = [lz EXCEPT !.props[n] = deleteProperty(@),
                             !.calls[n] = @ + 1,
                             !.stack = <<n>> \o @]
       ELSE lz' = [lz EXCEPT !.reads =
                       Append(@, [name |-> n, how |-> "plain",
                                  result |-> lz.props[n].value])]
    /\ UNCHANGED <<sa, ye, da, es, gm, pt>>

\* The running aLambda returns: return (aObject[aName] = aLambda.apply(aObject)).
LambdaReturn ==
    /\ lz.stack # <<>>
    /\ LET n == Head(lz.stack)
           v == Prim(lz.calls[n]) IN
       lz' = [lz EXCEPT !.props[n] = assignProperty(@, v),
                        !.stack = Tail(@),
                        !.reads = Append(@, [name |-> n, how |-> "computed",
                                             result |-> v])]
    /\ UNCHANGED <<sa, ye, da, es, gm, pt>>

\* The running aLambda throws: the read fails and nothing is assigned.
LambdaThrow ==
    /\ lz.stack # <<>>
    /\ LET n == Head(lz.stack) IN
       lz' = [lz EXCEPT !.stack = Tail(@),
                        !.reads = Append(@, [name |-> n, how |-> "threw",
                                             result |-> Undefined])]
    /\ UNCHANGED <<sa, ye, da, es, gm, pt>>

(***************************************************************************)
(* assert: a getter on exports that answers reallyAssert or noop.          *)
(*                                                                         *)
(* AppConstants.DEBUG and AppConstants.DEBUG_JS_MODULES are fixed by the   *)
(* build; testing is the module's flag, written through exports.testing.   *)
(* The module is a CommonJS module, so `this` in the getter (an arrow      *)
(* function at the top level) is exports and this.testing reads the flag.  *)
(* A caller reads exports.assert and then calls what it got.               *)
(***************************************************************************)
AssertIdle(debug, debugJsModules) ==
    [DEBUG |-> debug,
     DEBUG_JS_MODULES |-> debugJsModules,
     testing |-> FALSE,           \* var testing = false
     held |-> "none",             \* the function the last read of assert gave
     enabledAtRead |-> FALSE,     \* whether assertions were enabled at that read
     console |-> <<>>,            \* what reportException logged
     history |-> <<>>]            \* the calls made, in order

\* A getter that looks at the build flags only.
assertGetterIgnoresTesting(a) ==
    IF a.DEBUG \/ a.DEBUG_JS_MODULES THEN "reallyAssert" ELSE "noop"

\* get: () => (DEBUG || DEBUG_JS_MODULES || this.testing ? reallyAssert : noop)
assertGetter(a) ==
    IF a.DEBUG \/ a.DEBUG_JS_MODULES \/ a.testing THEN "reallyAssert" ELSE "noop"

\* reallyAssert(condition, message): what it does, in order.
reallyAssert(condition) ==
    IF ~condition THEN <<"log", "throw">> ELSE <<>>

\* exports.noop
noop(condition) == <<>>

\* exports.testing = state
SetTesting(state) ==
    /\ da.testing # state
    /\ da' = [da EXCEPT !.testing = state]
    /\ UNCHANGED <<sa, ye, lz, es, gm, pt>>

\* exports.assert is read.
ReadAssert ==
    /\ da' = [da EXCEPT !.held = assertGetter(da),
                        !.enabledAtRead = da.DEBUG \/ da.DEBUG_JS_MODULES \/ da.testing]
    /\ da' # da
    /\ UNCHANGED <<sa, ye, lz, es, gm, pt>>

\* The function read is called with a truthy or falsy condition.
CallAssert(condition) ==
    /\ da.held # "none"
    /\ Len(da.history) < MaxCalls
    /\ LET events == IF da.held = "reallyAssert"
                     THEN reallyAssert(condition) ELSE noop(condition) IN
       da' = [da EXCEPT
                !.console = @ \o SelectSeq(events, LAMBDA x : x = "log"),
                !.history = Append(@, [condition |-> condition,
                                       enabled |-> da.enabledAtRead,
                                       events |-> events])]
    /\ UNCHANGED <<sa, ye, lz, es, gm, pt>>

(***************************************************************************)
(* safeErrorString(aError).                                                *)
(*                                                                         *)
(* What the function can observe of aError: whether it is null or          *)
(* undefined, what aError.toString() does, what aError.stack and its       *)
(* toString() do, what aError.lineNumber and aError.columnNumber are, and  *)
(* what the lookup of Symbol.toStringTag does when                         *)
(* Object.prototype.toString is applied to it (ECMAScript 2015,            *)
(* 19.1.3.6: Get(O, @@toStringTag), which runs a getter or a proxy trap).  *)
(* The string returned is a sequence of its parts.                         *)
(***************************************************************************)
ToStringOutcomes == {"throws", "nonstring", "string"}
StackOutcomes == {"getThrows", "falsy", "toStringThrows", "toStringNonString", "string"}
NumberOutcomes == {"getThrows", "notNumber", "number"}
TagOutcomes == {"default", "throws"}

NullError ==
    [nullish |-> TRUE, toStr |-> "throws", stack |-> "getThrows",
     line |-> "getThrows", col |-> "getThrows", tag |-> "default"]

Errors ==
    {NullError} \cup
    [nullish : {FALSE}, toStr : ToStringOutcomes, stack : StackOutcomes,
     line : NumberOutcomes, col : NumberOutcomes, tag : TagOutcomes]

Returned(text) == [threw |-> FALSE, text |-> text]
Thrown == [threw |-> TRUE, text |-> <<>>]

\* Object.prototype.toString.call(aError): "[object Null]" and
\* "[object Undefined]" need no lookup; for an object the tag is looked up.
defaultToString(e) ==
    IF e.nullish THEN Returned(<<"[object]">>)
    ELSE IF e.tag = "throws" THEN Thrown
    ELSE Returned(<<"[object]">>)

\* The inner try: the stack is appended when it is truthy and its toString()
\* gives a string; any exception is swallowed.
withStack(e, errorString) ==
    CASE e.stack = "getThrows" -> errorString
      [] e.stack = "falsy" -> errorString
      [] e.stack = "toStringThrows" -> errorString
      [] e.stack = "toStringNonString" -> errorString
      [] OTHER -> errorString \o <<"Stack">>

\* typeof aError.lineNumber == "number" && typeof aError.columnNumber == "number":
\* "throws" when a getter that is reached throws, else whether both are numbers.
lineAndColumn(e) ==
    IF e.line = "getThrows" THEN "throws"
    ELSE IF e.line = "notNumber" THEN "no"
    ELSE IF e.col = "getThrows" THEN "throws"
    ELSE IF e.col = "notNumber" THEN "no"
    ELSE "yes"

safeErrorString(e) ==
    IF e.toStr = "string"
    THEN LET errorString == withStack(e, <<"toString">>) IN
         CASE lineAndColumn(e) = "yes" -> Returned(errorString \o <<"Line">>)
           [] lineAndColumn(e) = "no" -> Returned(errorString)
           [] OTHER -> defaultToString(e)
    ELSE defaultToString(e)

ErrIdle == [called |-> FALSE, aError |-> NullError, out |-> Returned(<<>>)]

\* safeErrorString is called with aError.
SafeErrorStringCall(e) ==
    /\ es' = [called |-> TRUE, aError |-> e, out |-> safeErrorString(e)]
    /\ UNCHANGED <<sa, ye, lz, da, gm, pt>>

(***************************************************************************)
(* GripMap: safeEntriesIterator, entriesIterator, getEntriesIndexes and    *)
(* getEntries.                                                             *)
(*                                                                         *)
(* An entry of preview.entries is [key, entry]; what the code looks at is  *)
(* the entry's value: a boolean, a number, a string (empty or not), a grip *)
(* of an object (class "Object"), or a raw null, which the protocol does   *)
(* not send (it sends {type: "null"}) and on which getEntries throws.  The *)
(* object given is null, a grip without preview, or a grip with entries.   *)
(* The displayed entries are given by their indexes in preview.entries.    *)
(***************************************************************************)
EntryKinds == {"boolean", "number", "string", "emptyString", "object", "rawNull"}

\* (value && value.class ? value.class : typeof value).toLowerCase()
typeOfEntry(kind) ==
    CASE kind = "boolean" -> "boolean"
      [] kind = "number" -> "number"
      [] kind = "string" -> "string"
      [] kind = "emptyString" -> "string"
      [] OTHER -> "object"

\* value.length of a string value (1 stands for any non-empty string).
lengthOfEntry(kind) == IF kind = "emptyString" THEN 0 ELSE 1

\* The default entry filter of entriesIterator.
isInterestingEntry(type, length) ==
    \/ type = "boolean"
    \/ type = "number"
    \/ (type = "string" /\ length # 0)

\* this.props.isInterestingEntry || the default filter, applied to each entry:
\* a filter given in the props is any deterministic function of the entry,
\* here the set of the indexes it accepts.
filterOf(props, mapEntries) ==
    [i \in 1..Len(mapEntries) |->
        IF props.isInterestingEntry = "default"
        THEN isInterestingEntry(typeOfEntry(mapEntries[i]), lengthOfEntry(mapEntries[i]))
        ELSE i \in props.accepts]

\* entries.reduce(...): the indexes the filter accepts, at most max of them.
RECURSIVE getEntriesIndexesFrom(_, _, _, _, _)
getEntriesIndexesFrom(indexes, i, n, max, filter) ==
    IF i > n THEN indexes
    ELSE getEntriesIndexesFrom(
             IF Len(indexes) < max /\ filter[i] THEN Append(indexes, i) ELSE indexes,
             i + 1, n, max, filter)

getEntriesIndexes(mapEntries, max, filter) ==
    getEntriesIndexesFrom(<<>>, 1, Len(mapEntries), max, filter)

\* x put at its place in the ascending sequence s.
RECURSIVE insertAscending(_, _)
insertAscending(s, x) ==
    IF s = <<>> THEN <<x>>
    ELSE IF x <= Head(s) THEN <<x>> \o s
    ELSE <<Head(s)>> \o insertAscending(Tail(s), x)

RECURSIVE sortAscending(_)
sortAscending(s) ==
    IF s = <<>> THEN <<>> ELSE insertAscending(sortAscending(Tail(s)), Head(s))

\* getEntries without the sort.
sortIndexesMissing(indexes) == indexes

\* indexes.sort(function (a, b) { return a - b; })
sortIndexes(indexes) == sortAscending(indexes)

GripReturned(entries, more) == [threw |-> FALSE, entries |-> entries, more |-> more]
GripThrown == [threw |-> TRUE, entries |-> <<>>, more |-> <<>>]

\* getEntries: the indexes sorted, and a PropRep for each; entryValue.value
\* throws a TypeError on a raw null.
getEntries(mapEntries, indexes) ==
    LET sorted == sortIndexes(indexes) IN
    IF \E k \in 1..Len(sorted) : mapEntries[sorted[k]] = "rawNull"
    THEN GripThrown
    ELSE GripReturned(sorted, <<>>)

\* A marker that is always appended.
moreMarkerAlways(shown, total, max) == <<total - max>>

\* if (entries.length < mapEntries.length) the caption `${mapEntries.length - max} more...`
moreMarker(shown, total, max) ==
    IF shown < total THEN <<total - max>> ELSE <<>>

\* object.preview && object.preview.entries ? object.preview.entries : []
mapEntriesOf(object) == IF object.kind = "grip" THEN object.entries ELSE <<>>

entriesIterator(object, max, props) ==
    IF object.kind = "null" THEN GripThrown
    ELSE
    LET mapEntries == mapEntriesOf(object)
        filter == filterOf(props, mapEntries)
        interesting == getEntriesIndexes(mapEntries, max, filter)
        indexes ==
            IF Len(interesting) < max /\ Len(interesting) < Len(mapEntries)
            THEN interesting \o
                 getEntriesIndexes(mapEntries, max - Len(interesting),
                                   [i \in 1..Len(mapEntries) |-> ~filter[i]])
            ELSE interesting
        entries == getEntries(mapEntries, indexes)
    IN  IF entries.threw THEN GripThrown
        ELSE GripReturned(entries.entries,
                          moreMarker(Len(entries.entries), Len(mapEntries), max))

\* The limit when max is undefined.
DefaultMax == 3

\* max = (typeof max === "undefined") ? 3 : max
limitOf(max) == IF max = Undefined THEN DefaultMax ELSE max.v

\* safeEntriesIterator without the try block.
safeEntriesIteratorUnguarded(object, max, props) ==
    [result |-> entriesIterator(object, limitOf(max), props), console |-> <<>>]

\* try { return this.entriesIterator(object, max); } catch (err) {
\* console.error(err); } return [];
safeEntriesIterator(object, max, props) ==
    LET r == entriesIterator(object, limitOf(max), props) IN
    IF r.threw
    THEN [result |-> GripReturned(<<>>, <<>>), console |-> <<"error">>]
    ELSE [result |-> r, console |-> <<>>]

GripObjects ==
    {[kind |-> "null", entries |-> <<>>], [kind |-> "noPreview", entries |-> <<>>]}
    \cup {[kind |-> "grip", entries |-> e] :
            e \in UNION {[1..n -> EntryKinds] : n \in 0..MaxEntries}}

Maxes == {Undefined} \cup {Prim(m) : m \in 0..MaxMax}

DefaultProps == [isInterestingEntry |-> "default", accepts |-> {}]

\* The calls made: any object with the default filter, and grips of objects
\* and raw nulls with any filter given in the props.
GripCalls ==
    [object : GripObjects, max : Maxes, props : {DefaultProps}]
    \cup UNION {
        [object : {[kind |-> "grip", entries |-> e] : e \in [1..n -> {"object", "rawNull"}]},
         max : Maxes,
         props : {[isInterestingEntry |-> "given", accepts |-> a] : a \in SUBSET (1..n)}]
        : n \in 0..MaxEntries}

GripIdle ==
    [called |-> FALSE,
     object |-> [kind |-> "noPreview", entries |-> <<>>],
     max |-> Undefined,
     props |-> DefaultProps,
     inner |-> GripReturned(<<>>, <<>>),     \* what entriesIterator did
     out |-> GripReturned(<<>>, <<>>),       \* what safeEntriesIterator did
     console |-> <<>>]

\* render calls safeEntriesIterator(object, max).
SafeEntriesIteratorCall(call) ==
    /\ ~gm.called
    /\ LET safe == safeEntriesIterator(call.object, call.max, call.props) IN
       gm' = [called |-> TRUE,
              object |-> call.object,
              max |-> call.max,
              props |-> call.props,
              inner |-> entriesIterator(call.object, limitOf(call.max), call.props),
              out |-> safe.result,
              console |-> safe.console]
    /\ UNCHANGED <<sa, ye, lz, da, es, pt>>

(***************************************************************************)
(* makeNodesForProperties(objProps, parent) and isDefault(item, roots).    *)
(*                                                                         *)
(* Their implementation (utils) is not among the sources; the tests are.   *)
(* The functions are modelled from the specification, section 4.2, with    *)
(* the order of the keys as the tests fix it: two numeric keys compare as  *)
(* numbers, any other two keys as strings, which puts the empty key of the *)
(* "quotes property names" test before its numeric key.  A string is the   *)
(* sequence of its character codes.  The keys are those of the tests: the  *)
(* empty key, digit strings, and keys that begin with a letter or an       *)
(* underscore; every property has a value; the numerical buckets of large  *)
(* arrays are left out.                                                    *)
(***************************************************************************)
KeyEmpty == <<>>
Key1 == <<49>>
Key2 == <<50>>
Key11 == <<49, 49>>
Key332217 == <<51, 51, 50, 50, 49, 55>>
KeyUnderBar == <<95, 98, 97, 114>>
KeyBar == <<98, 97, 114>>
KeyLocation == <<108, 111, 99, 97, 116, 105, 111, 110>>
KeyNeedsQuotes == <<110, 101, 101, 100, 115, 45, 113, 117, 111, 116, 101, 115>>
KeyUnquoted == <<117, 110, 113, 117, 111, 116, 101, 100>>

TestKeys ==
    {KeyEmpty, Key1, Key2, Key11, Key332217, KeyUnderBar, KeyBar, KeyLocation,
     KeyNeedsQuotes, KeyUnquoted}

RootPath == <<114, 111, 111, 116>>
ProtoName == <<95, 95, 112, 114, 111, 116, 111, 95, 95>>
DefaultBucketName == <<91, 100, 101, 102, 97, 117, 108, 116, 32, 112, 114, 111, 112, 101, 114, 116, 105, 101, 115, 93>>
DefaultBucketKey == <<35, 35, 45, 100, 101, 102, 97, 117, 108, 116>>
Slash == <<47>>
Quote == <<34>>

Digits == 48..57
Letters == (65..90) \cup (97..122)

\* The known default properties of a window; the tests name "location".
WindowProperties == {KeyLocation}

isNumericKey(k) == k # <<>> /\ \A i \in 1..Len(k) : k[i] \in Digits

RECURSIVE numberOfKey(_)
numberOfKey(k) ==
    IF k = <<>> THEN 0
    ELSE 10 * numberOfKey(SubSeq(k, 1, Len(k) - 1)) + (k[Len(k)] - 48)

\* a < b for strings: by character code, a proper prefix first.
RECURSIVE stringLess(_, _)
stringLess(a, b) ==
    IF b = <<>> THEN FALSE
    ELSE IF a = <<>> THEN TRUE
    ELSE IF Head(a) # Head(b) THEN Head(a) < Head(b)
    ELSE stringLess(Tail(a), Tail(b))

\* The order of the keys: numbers ascending, strings lexicographically.
keyBefore(a, b) ==
    IF isNumericKey(a) /\ isNumericKey(b)
    THEN numberOfKey(a) < numberOfKey(b)
    ELSE stringLess(a, b)

RECURSIVE sortProperties(_)
sortProperties(keys) ==
    IF keys = {} THEN <<>>
    ELSE LET first == CHOOSE k \in keys : \A x \in keys \ {k} : keyBefore(k, x)
         IN <<first>> \o sortProperties(keys \ {first})

isIdentifier(k) ==
    /\ k # <<>>
    /\ k[1] \in Letters \cup {95, 36}
    /\ \A i \in 1..Len(k) : k[i] \in Letters \cup Digits \cup {95, 36}

\* A name that is neither a number nor an identifier is shown in quotes.
nodeName(k) ==
    IF isNumericKey(k) \/ isIdentifier(k) THEN k ELSE Quote \o k \o Quote

\* `${parent.path}/${key}`
nodePath(parentPath, k) == parentPath \o Slash \o k

\* Whether a property is a default property under a root of the given class.
isDefault(name, rootClass) == rootClass = "Window" /\ name \in WindowProperties

RECURSIVE nodesForOwnProps(_, _)
nodesForOwnProps(props, parentPath) ==
    IF props = <<>> THEN <<>>
    ELSE <<[kind |-> "property", key |-> Head(props),
            name |-> nodeName(Head(props)),
            path |-> nodePath(parentPath, Head(props))]>>
         \o nodesForOwnProps(Tail(props), parentPath)

\* The nodes of an object's properties under the parent: the properties in
\* order, those that are default under a window root collapsed into one node,
\* then the prototype.
makeNodesForProperties(keys, hasPrototype, parentPath, rootClass) ==
    LET user == {k \in keys : ~isDefault(k, rootClass)}
        defaults == {k \in keys : isDefault(k, rootClass)}
    IN  nodesForOwnProps(sortProperties(user), parentPath)
        \o (IF defaults # {}
            THEN <<[kind |-> "default", key |-> DefaultBucketKey,
                    name |-> DefaultBucketName,
                    path |-> nodePath(parentPath, DefaultBucketKey)]>>
            ELSE <<>>)
        \o (IF hasPrototype
            THEN <<[kind |-> "prototype", key |-> ProtoName,
                    name |-> ProtoName,
                    path |-> nodePath(parentPath, ProtoName)]>>
            ELSE <<>>)

(***************************************************************************)
(* What the tests give and expect.                                         *)
(***************************************************************************)
TestCall(keys, hasPrototype, rootClass) ==
    [keys |-> keys, hasPrototype |-> hasPrototype, rootClass |-> rootClass]

\* it("sorts keys")
SortsKeysCall == TestCall({KeyBar, Key1, Key11, Key2, KeyUnderBar}, TRUE, "Object")

\* The expectation of a test that sorted the numeric keys as strings.
SortsKeysNamesAsStrings ==
    <<<<49>>,
      <<49, 49>>,
      <<50>>,
      <<95, 98, 97, 114>>,
      <<98, 97, 114>>,
      <<95, 95, 112, 114, 111, 116, 111, 95, 95>>>>

SortsKeysNames ==
    <<<<49>>,
      <<50>>,
      <<49, 49>>,
      <<95, 98, 97, 114>>,
      <<98, 97, 114>>,
      <<95, 95, 112, 114, 111, 116, 111, 95, 95>>>>

SortsKeysPaths ==
    <<<<114, 111, 111, 116, 47, 49>>,
      <<114, 111, 111, 116, 47, 50>>,
      <<114, 111, 111, 116, 47, 49, 49>>,
      <<114, 111, 111, 116, 47, 95, 98, 97, 114>>,
      <<114, 111, 111, 116, 47, 98, 97, 114>>,
      <<114, 111, 111, 116, 47, 95, 95, 112, 114, 111, 116, 111, 95, 95>>>>

\* it("prototype is included")
PrototypeCall == TestCall({KeyBar}, TRUE, "Object")

PrototypeNames ==
    <<<<98, 97, 114>>,
      <<95, 95, 112, 114, 111, 116, 111, 95, 95>>>>

PrototypePaths ==
    <<<<114, 111, 111, 116, 47, 98, 97, 114>>,
      <<114, 111, 111, 116, 47, 95, 95, 112, 114, 111, 116, 111, 95, 95>>>>

\* it("quotes property names")
QuotesCall ==
    TestCall({Key332217, KeyNeedsQuotes, KeyUnquoted, KeyEmpty}, TRUE, "Object")

QuotesNames ==
    <<<<34, 34>>,
      <<51, 51, 50, 50, 49, 55>>,
      <<34, 110, 101, 101, 100, 115, 45, 113, 117, 111, 116, 101, 115, 34>>,
      <<117, 110, 113, 117, 111, 116, 101, 100>>,
      <<95, 95, 112, 114, 111, 116, 111, 95, 95>>>>

QuotesPaths ==
    <<<<114, 111, 111, 116, 47>>,
      <<114, 111, 111, 116, 47, 51, 51, 50, 50, 49, 55>>,
      <<114, 111, 111, 116, 47, 110, 101, 101, 100, 115, 45, 113, 117, 111, 116, 101, 115>>,
      <<114, 111, 111, 116, 47, 117, 110, 113, 117, 111, 116, 101, 100>>,
      <<114, 111, 111, 116, 47, 95, 95, 112, 114, 111, 116, 111, 95, 95>>>>

\* it("window object")
WindowCall == TestCall({KeyBar, KeyLocation}, FALSE, "Window")

\* The expectation of a test in which location stayed a node of its own.
WindowNamesUncollapsed ==
    <<<<98, 97, 114>>,
      <<108, 111, 99, 97, 116, 105, 111, 110>>>>

WindowNames ==
    <<<<98, 97, 114>>,
      <<91, 100, 101, 102, 97, 117, 108, 116, 32, 112, 114, 111, 112, 101, 114, 116, 105, 101, 115, 93>>>>

WindowPaths ==
    <<<<114, 111, 111, 116, 47, 98, 97, 114>>,
      <<114, 111, 111, 116, 47, 35, 35, 45, 100, 101, 102, 97, 117, 108, 116>>>>

\* it("window prop on normal object"): isDefault of "location" under a Window
\* root and under an Object root.
IsDefaultExpected == <<TRUE, FALSE>>

TreeCalls ==
    [keys : {k \in SUBSET TestKeys : Cardinality(k) <= MaxProps},
     hasPrototype : BOOLEAN,
     rootClass : {"Object", "Window"}]

TreeIdle == [called |-> FALSE, call |-> TestCall({}, FALSE, "Object"), nodes |-> <<>>]

\* makeNodesForProperties(objProps, root) is called, root.path being "root".
MakeNodesForPropertiesCall(call) ==
    /\ ~pt.called
    /\ pt' = [called |-> TRUE,
              call |-> call,
              nodes |-> makeNodesForProperties(call.keys, call.hasPrototype,
                                               RootPath, call.rootClass)]
    /\ UNCHANGED <<sa, ye, lz, da, es, gm>>

AllKinds == UNION {[1..n -> InputKinds] : n \in 0..MaxInputs}

InitIdle ==
    /\ sa = SettleIdle
    /\ ye = YieldIdle
    /\ lz = LazyIdle
    /\ da = AssertIdle(FALSE, FALSE)
    /\ es = ErrIdle
    /\ gm = GripIdle
    /\ pt = TreeIdle

NextSettle ==
    \/ \E kinds \in AllKinds : SettleAllCall(kinds)
    \/ \E i \in 1..MaxInputs : InputResolve(i)
    \/ \E i \in 1..MaxInputs : InputReject(i)
    \/ RunReaction

SpecSettle == InitIdle /\ [][NextSettle]_vars

NextYield ==
    \/ \E len \in 0..MaxLen : YieldingEachCall(len)
    \/ \E ret \in FnReturns : LoopCall(ret)
    \/ LoopThrow
    \/ LoopYield
    \/ LoopFinish
    \/ LoopResume
    \/ \E k \in 1..MaxLen, how \in {"resolved", "rejected"} : FnPromiseSettle(k, how)
    \/ PromiseAllSettle

SpecYield == InitIdle /\ [][NextYield]_vars

NextLazy ==
    \/ \E n \in Names : DefineLazyGetter(n)
    \/ \E n \in Names : ReadProperty(n)
    \/ LambdaReturn
    \/ LambdaThrow

SpecLazy == InitIdle /\ [][NextLazy]_vars

InitAssert ==
    /\ sa = SettleIdle
    /\ ye = YieldIdle
    /\ lz = LazyIdle
    /\ da \in {AssertIdle(d, m) : d \in BOOLEAN, m \in BOOLEAN}
    /\ es = ErrIdle
    /\ gm = GripIdle
    /\ pt = TreeIdle

NextAssert ==
    \/ \E state \in BOOLEAN : SetTesting(state)
    \/ ReadAssert
    \/ \E condition \in BOOLEAN : CallAssert(condition)

SpecAssert == InitAssert /\ [][NextAssert]_vars

NextErr == \E e \in Errors : SafeErrorStringCall(e)

SpecErr == InitIdle /\ [][NextErr]_vars

NextGrip == \E call \in GripCalls : SafeEntriesIteratorCall(call)

SpecGrip == InitIdle /\ [][NextGrip]_vars

NextTree == \E call \in TreeCalls : MakeNodesForPropertiesCall(call)

SpecTree == InitIdle /\ [][NextTree]_vars

(***************************************************************************)
(* settleAll: the claims.                                                  *)
(***************************************************************************)
SettleCalled == sa.phase = "called"
SettleN == Len(sa.kinds)
SettleDeferred == sa.c.deferred
SomeInputPending == \E i \in 1..SettleN : sa.inState[i] = "pending"
AllReactionsRan ==
    /\ ~SomeInputPending
    /\ sa.jobs = <<>>

\* C1: while at least one input promise is still pending, the promise returned
\* by settleAll over a non-empty input is pending; an early rejection does not
\* settle it.
C1_PendingWhileInputPending ==
    (SettleCalled /\ SettleN > 0 /\ SomeInputPending)
        => SettleDeferred.state = "pending"

\* C1 witness: a rejecter has run while another input is still pending.
C1_Witness ==
    /\ SettleCalled
    /\ SomeInputPending
    /\ \E k \in 1..Len(sa.ran) : sa.inState[sa.ran[k]] = "rejected"
    /\ sa.c.rejectionOccurred
    /\ SettleDeferred.state = "pending"

\* C2: when no input rejects and every input has settled and been seen,
\* settleAll is resolved with the array whose element i is the value of input i.
C2_ResolvesInInputOrder ==
    (/\ SettleCalled
     /\ SettleN > 0
     /\ AllReactionsRan
     /\ \A i \in 1..SettleN : sa.inState[i] \in {"plain", "resolved"})
        => SettleDeferred =
             [state |-> "resolved",
              value |-> Arr([i \in 1..SettleN |-> ValueOf(i)])]

\* C2 witness: three inputs, a plain value among them, the promises resolved
\* in the reverse of the input order.
C2_Witness ==
    /\ SettleCalled
    /\ SettleN = 3
    /\ sa.kinds = <<"pending", "plain", "pending">>
    /\ sa.ran = <<3, 1>>
    /\ SettleDeferred.state = "resolved"

\* C3: once an input has rejected, settleAll is never resolved, and when all
\* inputs have settled it is rejected with the reason of the first rejection.
C3_RejectsWithFirstReason ==
    (SettleCalled /\ sa.firstRejected # 0)
        => /\ SettleDeferred.state # "resolved"
           /\ AllReactionsRan
                => SettleDeferred =
                     [state |-> "rejected", value |-> ValueOf(sa.firstRejected)]
           /\ SettleDeferred.state = "rejected"
                => SettleDeferred.value = ValueOf(sa.firstRejected)

\* C3 witness: two inputs rejected, the later input first, and a resolution
\* in between; all reactions have run.
C3_Witness ==
    /\ SettleCalled
    /\ sa.kinds = <<"pending", "pending", "pending">>
    /\ sa.inState = <<"rejected", "resolved", "rejected">>
    /\ sa.ran = <<3, 2, 1>>
    /\ sa.firstRejected = 3
    /\ SettleDeferred.state = "rejected"

\* C4: over an empty input the promise is resolved when settleAll returns,
\* with no reaction run.
C4_EmptyResolvesImmediately ==
    (SettleCalled /\ SettleN = 0) => SettleDeferred.state = "resolved"

\* C4 witness: settleAll has returned from a call with an empty input.
C4_Witness ==
    /\ SettleCalled
    /\ SettleN = 0
    /\ sa.ran = <<>>
    /\ SettleDeferred.state = "resolved"

\* C5: the resolution value is the array of the resolved values in the given
\* order, or undefined when the input is empty.
C5_EmptyResolvesWithUndefined ==
    (SettleCalled /\ SettleDeferred.state = "resolved")
        => SettleDeferred.value =
             IF SettleN = 0 THEN Undefined
             ELSE Arr([i \in 1..SettleN |-> ValueOf(i)])

(***************************************************************************)
(* yieldingEach: the claims.                                               *)
(***************************************************************************)
\* aFn is called on the elements in ascending order, each once.
CallsAscendingOnce ==
    /\ Len(ye.calls) = ye.i
    /\ \A j \in 1..Len(ye.calls) : ye.calls[j] = j
    /\ (ye.pc = "done" /\ ye.deferred = "resolved") => Len(ye.calls) = ye.len

NoCallThrew == \A k \in 1..ye.len : ye.fn[k] # "threw"

\* C6: aFn is called exactly once per index, in ascending order, however often
\* the loop yields; and when aFn never throws, the returned promise is resolved
\* only after the whole array has been iterated and every promise aFn returned
\* has resolved.
C6_ResolvesAfterAllFnPromises ==
    /\ CallsAscendingOnce
    /\ (ye.result = "resolved" /\ NoCallThrew)
         => /\ ye.i = ye.len
            /\ \A k \in 1..ye.len : ye.fn[k] \in {"plain", "resolved"}

\* C7: while the promise aFn returned for an element is pending, aFn has not
\* been called for the next element.
C7_PausedWhileFnPromisePending ==
    \A k \in 1..(ye.len - 1) : ye.fn[k] = "pending" => ye.fn[k + 1] = "none"

(***************************************************************************)
(* defineLazyGetter: the claims.                                           *)
(***************************************************************************)
\* C8: aLambda is called at most once for a lazy property; the read that
\* computes the value leaves the property a plain value, and every later read
\* returns that same value.
C8_LambdaCalledAtMostOnce ==
    \A n \in Names :
        /\ lz.calls[n] <= 1
        /\ \A j \in 1..Len(lz.reads) :
             (lz.reads[j].name = n /\ lz.reads[j].how = "computed")
                => /\ lz.props[n] = PlainValue(lz.reads[j].result)
                   /\ \A k \in (j + 1)..Len(lz.reads) :
                        lz.reads[k].name = n
                           => /\ lz.reads[k].how = "plain"
                              /\ lz.reads[k].result = lz.reads[j].result

\* C8 witness: a property was read three times; the first read computed the
\* value and the two later reads returned it.
C8_Witness ==
    /\ lz.calls["a"] = 1
    /\ Len(lz.reads) = 3
    /\ \A k \in 1..3 : lz.reads[k].name = "a" /\ lz.reads[k].result = Prim(1)
    /\ lz.reads[1].how = "computed"
    /\ lz.reads[2].how = "plain"
    /\ lz.props["a"].kind = "value"

(***************************************************************************)
(* assert: the claims.                                                     *)
(***************************************************************************)
Threw(h) == \E k \in 1..Len(h.events) : h.events[k] = "throw"

\* C9: a call of assert throws only when assertions were enabled (DEBUG,
\* DEBUG_JS_MODULES or testing) when assert was read and the condition is
\* falsy, and then the failure is logged before the error is thrown; when they
\* were not enabled the call does nothing; the testing flag decides what a
\* later read of assert gives.
C9_AssertThrowsOnlyWhenEnabled ==
    /\ da.held # "none" => ((da.held = "reallyAssert") <=> da.enabledAtRead)
    /\ \A j \in 1..Len(da.history) :
         LET h == da.history[j] IN
         /\ Threw(h) <=> (h.enabled /\ ~h.condition)
         /\ Threw(h) => h.events = <<"log", "throw">>
         /\ ~h.enabled => h.events = <<>>
    /\ Len(da.console) = Cardinality({j \in 1..Len(da.history) : Threw(da.history[j])})

\* C9 witness: in a build without DEBUG and DEBUG_JS_MODULES, a call with a
\* falsy condition did nothing while testing was off, and after testing was
\* set a call with a falsy condition logged and threw.
C9_Witness ==
    /\ ~da.DEBUG /\ ~da.DEBUG_JS_MODULES
    /\ da.testing
    /\ Len(da.history) = 2
    /\ da.history[1] = [condition |-> FALSE, enabled |-> FALSE, events |-> <<>>]
    /\ da.history[2] = [condition |-> FALSE, enabled |-> TRUE,
                        events |-> <<"log", "throw">>]
    /\ Len(da.console) = 1

(***************************************************************************)
(* safeErrorString: the claims.                                            *)
(***************************************************************************)
StackLookupFails ==
    es.aError.stack \in {"getThrows", "toStringThrows", "toStringNonString"}

\* C10: safeErrorString never throws and returns a string for every input; a
\* throwing or non-string toString gives the default Object.prototype.toString
\* text; a failure confined to the stack lookup still gives the toString text,
\* without the stack.
C10_NeverThrows ==
    es.called =>
        /\ ~es.out.threw
        /\ es.aError.toStr \in {"throws", "nonstring"}
             => es.out.text = <<"[object]">>
        /\ (es.aError.toStr = "string" /\ StackLookupFails
                /\ lineAndColumn(es.aError) # "throws")
             => /\ Head(es.out.text) = "toString"
                /\ \A k \in 1..Len(es.out.text) : es.out.text[k] # "Stack"

(***************************************************************************)
(* GripMap: the claims.                                                    *)
(***************************************************************************)
GripN == Len(mapEntriesOf(gm.object))
GripLimit == limitOf(gm.max)
GripFilter == filterOf(gm.props, mapEntriesOf(gm.object))
GripInteresting == {i \in 1..GripN : GripFilter[i]}
GripUninteresting == {i \in 1..GripN : ~GripFilter[i]}
GripShown == {gm.inner.entries[k] : k \in 1..Len(gm.inner.entries)}
MinOf(a, b) == IF a < b THEN a ELSE b

\* C11: when entry selection returns, it displays min(max, number of entries)
\* entries: the first up-to-max interesting ones, filled up with the first
\* uninteresting ones only as far as fewer than max are interesting, in
\* ascending index order with no index repeated.
C11_DisplaysFirstInteresting ==
    (gm.called /\ ~gm.inner.threw) =>
        /\ Len(gm.inner.entries) = MinOf(GripLimit, GripN)
        /\ \A k \in 1..(Len(gm.inner.entries) - 1) :
             gm.inner.entries[k] < gm.inner.entries[k + 1]
        /\ \A i \in GripInteresting :
             i \in GripShown
                <=> Cardinality({j \in GripInteresting : j < i}) < GripLimit
        /\ \A i \in GripUninteresting :
             i \in GripShown
                <=> Cardinality(GripInteresting)
                      + Cardinality({j \in GripUninteresting : j < i}) < GripLimit

\* C11 witness: the test's shape with one more entry and max 3: two interesting
\* entries after an empty string, which is filled in and displayed first.
C11_Witness ==
    /\ gm.called
    /\ gm.props = DefaultProps
    /\ gm.max = Prim(3)
    /\ gm.object.entries = <<"emptyString", "boolean", "object", "number">>
    /\ gm.inner = GripReturned(<<1, 2, 4>>, <<1>>)

\* C12: an exception raised by entriesIterator does not leave
\* safeEntriesIterator: it is logged and the result is the empty list; and an
\* undefined max means the limit 3.
C12_ExceptionsGiveEmptyList ==
    gm.called =>
        /\ ~gm.out.threw
        /\ gm.inner.threw
             => /\ gm.out = GripReturned(<<>>, <<>>)
                /\ gm.console = <<"error">>
        /\ ~gm.inner.threw => (gm.out = gm.inner /\ gm.console = <<>>)
        /\ (gm.max = Undefined /\ ~gm.inner.threw)
             => Len(gm.out.entries) = MinOf(3, GripN)

\* C12 witness: max is undefined, so both entries are selected, and the raw
\* null makes getEntries throw; the result is the empty list.
C12_Witness ==
    /\ gm.called
    /\ gm.max = Undefined
    /\ gm.object.entries = <<"number", "rawNull">>
    /\ gm.inner.threw
    /\ gm.out = GripReturned(<<>>, <<>>)
    /\ gm.console = <<"error">>

\* C15: when entriesIterator returns, the "more" marker is there exactly when
\* fewer entries are displayed than the preview has, and the number it shows,
\* entries.length - max, is the number of entries left undisplayed, for the
\* default and for any given filter.
C15_MoreMarkerCountsUndisplayed ==
    (gm.called /\ ~gm.inner.threw) =>
        /\ (gm.inner.more # <<>>) <=> (Len(gm.inner.entries) < GripN)
        /\ gm.inner.more # <<>> =>
             /\ Len(gm.inner.more) = 1
             /\ gm.inner.more[1] = GripN - Cardinality(GripShown)
        /\ gm.inner.more = <<>> => Cardinality(GripShown) = GripN

\* C15 witness: a preview of four entries, a filter given in the props, max 2:
\* two entries are displayed and the marker shows 2.
C15_Witness ==
    /\ gm.called
    /\ ~gm.inner.threw
    /\ gm.props.isInterestingEntry = "given"
    /\ GripN = 4
    /\ gm.max = Prim(2)
    /\ Len(gm.inner.entries) = 2
    /\ gm.inner.more = <<2>>

(***************************************************************************)
(* makeNodesForProperties: the claims.                                     *)
(***************************************************************************)
TreeNames == [k \in 1..Len(pt.nodes) |-> pt.nodes[k].name]
TreePaths == [k \in 1..Len(pt.nodes) |-> pt.nodes[k].path]
TreeProperties == {k \in 1..Len(pt.nodes) : pt.nodes[k].kind = "property"}

\* The prototype node is there when the object has a prototype, and is last.
PrototypeLast ==
    /\ pt.call.hasPrototype
         => (pt.nodes # <<>> /\ pt.nodes[Len(pt.nodes)].name = ProtoName)
    /\ \A k \in 1..(Len(pt.nodes) - 1) : pt.nodes[k].kind # "prototype"

\* The path of a property node is the parent path, '/', and the unquoted key.
PathsJoinParentAndKey ==
    \A k \in TreeProperties : pt.nodes[k].path = RootPath \o Slash \o pt.nodes[k].key

\* Numeric keys ascending as numbers, the other keys lexicographically.
SortedWithinGroups ==
    \A i, j \in TreeProperties :
        i < j =>
            LET a == pt.nodes[i].key
                b == pt.nodes[j].key IN
            /\ (isNumericKey(a) /\ isNumericKey(b)) => numberOfKey(a) < numberOfKey(b)
            /\ (~isNumericKey(a) /\ ~isNumericKey(b)) => stringLess(a, b)

\* The tests C13 rests on give what they expect.
SortTestsPass ==
    /\ pt.call = SortsKeysCall => (TreeNames = SortsKeysNames /\ TreePaths = SortsKeysPaths)
    /\ pt.call = PrototypeCall => (TreeNames = PrototypeNames /\ TreePaths = PrototypePaths)
    /\ pt.call = QuotesCall => (TreeNames = QuotesNames /\ TreePaths = QuotesPaths)

====
